---- MODULE Spec2Model ----
(***************************************************************************)
(* Model of the thread actions of lib/actions/thread.actions.ts over the   *)
(* Thread collection of the thread model (threadSchema) and the threads    *)
(* back-reference lists of the User and Community collections.             *)
(*                                                                         *)
(* Every server action is an async function; each `await` of a store call  *)
(* is one step of the calling process.  pc[p] is the position of process p *)
(* inside the action it runs, call[p] its arguments, loc[p] its local      *)
(* variables and ret[p] what the last finished action returned or threw.   *)
(*                                                                         *)
(* Two history variables serve the properties: pre[p] is the store as it   *)
(* was when process p began its action, commentLog[t] lists the            *)
(* addCommentToThread calls on Thread t that returned normally.            *)
(*                                                                         *)
(* The User and Community models are imported by the actions; what is      *)
(* modelled of them is what the actions touch: their _id, the threads list *)
(* and the `id` of a Community.  Authors are stored Users, every Community *)
(* has an `id`, and createdAt (Date.now) grows with every created Thread.  *)
(***************************************************************************)
EXTENDS Integers, Sequences, FiniteSets, TLC

\* ---------------------------------------------------------------- bounds
MaxThreads == 4      \* how many Thread documents the actions of Spec create
MaxPage == 3         \* pageNumber ranges over 1..MaxPage
MaxPageSize == 2     \* pageSize ranges over 1..MaxPageSize in Spec
MaxFeed == 25        \* the feeds of SpecFeed hold 0..MaxFeed posts
FeedPageSize == 10   \* the larger pageSize asked of the feeds of SpecFeed
MaxFailThreads == 3  \* how many Thread documents the actions of SpecFail create
RaceThreads == 3     \* how many Threads are stored when SpecRace begins
TreeThreads == 4     \* how many Threads are stored when SpecDeletes begins

\* ---------------------------------------------------------------- universe
Procs == {"p1", "p2"}

\* The caller of the specifications with one request at a time.
Clients == {"p1"}

\* The cause messages of a store call that fails.
Messages == {"connection closed"}
Users == {"u1", "u2"}             \* _id of the stored User documents
Communities == {"c1"}             \* _id of the stored Community documents
OrgIds == {"org1", "org9"}        \* external community identifiers a caller may pass
Texts == {"a"}
Ids == 1..MaxThreads              \* _id of Thread documents, in order of creation
NoId == 0                         \* null / undefined Thread reference
NoCommunity == "none"             \* null / undefined Community reference
NoUser == "nobody"
NoOrg == "null"                   \* communityId: null
NoText == ""

\* The `id` field of a stored Community (the external identifier).
CommunityExtId(c) == IF c = "c1" THEN "org1" ELSE NoOrg

VARIABLES threads, users, communities, nextId, pc, call, loc, ret, pre, commentLog

vars == <<threads, users, communities, nextId, pc, call, loc, ret, pre, commentLog>>
store == <<threads, users, communities, nextId, commentLog>>

\* ---------------------------------------------------------------- sequences
Range(s) == {s[i] : i \in 1..Len(s)}

Min(a, b) == IF a < b THEN a ELSE b

MinOf(S) == CHOOSE x \in S : \A y \in S : x <= y

\* The elements of a set of ids in ascending (insertion) order.
RECURSIVE SetToSeq(_)
SetToSeq(S) == IF S = {} THEN <<>>
               ELSE <<MinOf(S)>> \o SetToSeq(S \ {MinOf(S)})

\* $pull: { threads: { $in: ids } }
Pull(s, ids) == SelectSeq(s, LAMBDA x : x \notin ids)

\* .skip(n)
Skip(s, n) == IF n >= Len(s) THEN <<>> ELSE SubSeq(s, n + 1, Len(s))

\* .limit(n)
Limit(s, n) == SubSeq(s, 1, Min(n, Len(s)))

\* ---------------------------------------------------------------- documents
\* A Thread document as threadSchema declares it.
NewThread(text, author, community, createdAt, parentId) ==
  [text |-> text, author |-> author, community |-> community,
   createdAt |-> createdAt, parentId |-> parentId, children |-> <<>>]

Stored == DOMAIN threads

\* Thread.findById(id): the id when a document has it, null otherwise.
FindById(id) == IF id \in Stored THEN id ELSE NoId

\* Thread.find({ parentId: id }) in natural order.
FindByParent(id) == SetToSeq({t \in Stored : threads[t].parentId = id})

\* { parentId: { $in: [null, undefined] } }
TopLevel == {t \in Stored : threads[t].parentId = NoId}

\* Mutant of FindCommunity: the identifier is looked up as the storage _id.
FindCommunity_ById(communityId) ==
  IF communityId \in Communities THEN communityId ELSE NoCommunity

\* Community.findOne({ id: communityId }, { _id: 1 })
FindCommunity(communityId) ==
  IF \E c \in Communities : CommunityExtId(c) = communityId
  THEN CHOOSE c \in Communities : CommunityExtId(c) = communityId
  ELSE NoCommunity

\* ---------------------------------------------------------------- processes
NoCall == [op |-> "none", id |-> NoId, text |-> NoText, author |-> NoUser,
           communityId |-> NoOrg, page |-> 0, pageSize |-> 0]

\* What a query returns of a Thread document: its _id, author and community.
Doc(t) == [_id |-> t, author |-> threads[t].author, community |-> threads[t].community]

NoDoc == [_id |-> NoId, author |-> NoUser, community |-> NoCommunity]

NoLoc == [communityIdObject |-> NoCommunity, createdThread |-> NoId,
          mainThread |-> NoDoc, stack |-> <<>>, descendantThreads |-> <<>>,
          descendantThreadIds |-> {}, uniqueAuthorIds |-> {},
          uniqueCommunityIds |-> {}, originalThread |-> NoId,
          savedCommentThread |-> NoId, totalPostsCount |-> 0]

NoRet == [status |-> "none", error |-> "", failedAt |-> "", isNull |-> FALSE,
          thread |-> <<>>, posts |-> <<>>, isNext |-> FALSE]

Ok == [NoRet EXCEPT !.status = "ok"]

Throw(msg) == [NoRet EXCEPT !.status = "error", !.error = msg]

\* The store call `at` rejected and the action throws msg.
Failed(at, msg) == [Throw(msg) EXCEPT !.failedAt = at]

\* new Error("Thread not found")
ThreadNotFound == "Thread not found"

\* `Failed to create post: ${error.message}`
CreateError(message) == "Failed to create post: " \o message

\* `Failed to delete thread: ${error.message}`
DeleteError(message) == "Failed to delete thread: " \o message

\* new Error("Unable to fetch thread"): the caught error is only logged
FetchError(message) == "Unable to fetch thread"

\* new Error("Unable to add comment"): the caught error is only logged
CommentError(message) == "Unable to add comment"

Snapshot == [threads |-> threads, users |-> users, communities |-> communities]

Idle(p) == pc[p] = "idle"

\* A process starts an action: its arguments are recorded, its locals reset.
Begin(p, c) ==
  /\ Idle(p)
  /\ call' = [call EXCEPT ![p] = c]
  /\ pre' = [pre EXCEPT ![p] = Snapshot]

Goto(p, label) == pc' = [pc EXCEPT ![p] = label]

\* The action goes on after its first store call: nothing is returned yet.
Enter(p, label) ==
  /\ pc' = [pc EXCEPT ![p] = label]
  /\ UNCHANGED ret

\* The action returns r to its caller (or throws it).
Return(p, r) ==
  /\ pc' = [pc EXCEPT ![p] = "done"]
  /\ ret' = [ret EXCEPT ![p] = r]

NoSnapshot == [threads |-> <<>>, users |-> [u \in Users |-> <<>>],
               communities |-> [c \in Communities |-> <<>>]]

\* The caller has taken the result: the request is over.
Finish(p) ==
  /\ pc[p] = "done"
  /\ pc' = [pc EXCEPT ![p] = "idle"]
  /\ call' = [call EXCEPT ![p] = NoCall]
  /\ loc' = [loc EXCEPT ![p] = NoLoc]
  /\ ret' = [ret EXCEPT ![p] = NoRet]
  /\ pre' = [pre EXCEPT ![p] = NoSnapshot]
  /\ UNCHANGED store

Init ==
  /\ threads = <<>>
  /\ users = [u \in Users |-> <<>>]
  /\ communities = [c \in Communities |-> <<>>]
  /\ nextId = 1
  /\ pc = [p \in Procs |-> "idle"]
  /\ call = [p \in Procs |-> NoCall]
  /\ loc = [p \in Procs |-> NoLoc]
  /\ ret = [p \in Procs |-> NoRet]
  /\ pre = [p \in Procs |-> NoSnapshot]
  /\ commentLog = <<>>

\* ---------------------------------------------------------------- createThread
\* const communityIdObject = await Community.findOne({ id: communityId }, { _id: 1 })
CreateThread_findOne(p, text, author, communityId) ==
  /\ nextId <= MaxThreads
  /\ Begin(p, [NoCall EXCEPT !.op = "createThread", !.text = text,
                             !.author = author, !.communityId = communityId])
  /\ loc' = [loc EXCEPT ![p] =
               [NoLoc EXCEPT !.communityIdObject = FindCommunity(communityId)]]
  /\ Enter(p, "ct_create")
  /\ UNCHANGED store

\* const createdThread = await Thread.create({ text, author, community })
CreateThread_create(p) ==
  /\ pc[p] = "ct_create"
  /\ nextId <= MaxThreads
  /\ threads' = (nextId :> NewThread(call[p].text, call[p].author,
                                     loc[p].communityIdObject, nextId, NoId))
                @@ threads
  /\ nextId' = nextId + 1
  /\ commentLog' = (nextId :> <<>>) @@ commentLog
  /\ loc' = [loc EXCEPT ![p].createdThread = nextId]
  /\ Goto(p, "ct_pushUser")
  /\ UNCHANGED <<users, communities, call, ret, pre>>

\* await User.findByIdAndUpdate(author, { $push: { threads: createdThread._id } })
CreateThread_pushUser(p) ==
  /\ pc[p] = "ct_pushUser"
  /\ users' = [u \in Users |->
                 IF u = call[p].author
                 THEN Append(users[u], loc[p].createdThread) ELSE users[u]]
  /\ IF loc[p].communityIdObject # NoCommunity
     THEN Goto(p, "ct_pushCommunity") /\ UNCHANGED ret
     ELSE Return(p, Ok)
  /\ UNCHANGED <<threads, communities, nextId, commentLog, call, loc, pre>>

\* await Community.findByIdAndUpdate(communityIdObject, { $push: { threads: ... } })
CreateThread_pushCommunity(p) ==
  /\ pc[p] = "ct_pushCommunity"
  /\ communities' = [c \in Communities |->
                       IF c = loc[p].communityIdObject
                       THEN Append(communities[c], loc[p].createdThread)
                       ELSE communities[c]]
  /\ Return(p, Ok)
  /\ UNCHANGED <<threads, users, nextId, commentLog, call, loc, pre>>

\* Mutant of CreateThread_catch: the catch block undoes the writes of the call.
CreateThread_catch_Rollback(p, message) ==
  /\ \/ /\ pc[p] \in {"ct_create", "ct_pushUser", "ct_pushCommunity"}
        /\ Return(p, Failed(pc[p], CreateError(message)))
        /\ UNCHANGED <<call, loc, pre>>
     \/ /\ \E text \in Texts, author \in Users, communityId \in OrgIds \cup {NoOrg} :
             Begin(p, [NoCall EXCEPT !.op = "createThread", !.text = text,
                                     !.author = author, !.communityId = communityId])
        /\ loc' = [loc EXCEPT ![p] = NoLoc]
        /\ Return(p, Failed("ct_findOne", CreateError(message)))
  /\ threads' = [t \in Stored \ {loc[p].createdThread} |-> threads[t]]
  /\ users' = [u \in Users |-> Pull(users[u], {loc[p].createdThread})]
  /\ UNCHANGED <<communities, nextId, commentLog>>

\* A store call of createThread rejects with `message`: the catch block throws
\* the wrapped error, what was written stays.
CreateThread_catch(p, message) ==
  /\ \/ /\ pc[p] \in {"ct_create", "ct_pushUser", "ct_pushCommunity"}
        /\ Return(p, Failed(pc[p], CreateError(message)))
        /\ UNCHANGED <<call, loc, pre>>
     \/ /\ \E text \in Texts, author \in Users, communityId \in OrgIds \cup {NoOrg} :
             Begin(p, [NoCall EXCEPT !.op = "createThread", !.text = text,
                                     !.author = author, !.communityId = communityId])
        /\ loc' = [loc EXCEPT ![p] = NoLoc]
        /\ Return(p, Failed("ct_findOne", CreateError(message)))
  /\ UNCHANGED store

createThread(p) ==
  \/ \E text \in Texts, author \in Users, communityId \in OrgIds \cup {NoOrg} :
       CreateThread_findOne(p, text, author, communityId)
  \/ CreateThread_create(p)
  \/ CreateThread_pushUser(p)
  \/ CreateThread_pushCommunity(p)

\* ---------------------------------------------------------------- deleteThread
\* descendantThreads.map((thread) => thread._id)
DocIds(docs) == {docs[i]._id : i \in 1..Len(docs)}

\* The authors of a list of documents, undefined ones filtered out.
DocAuthors(docs) == {docs[i].author : i \in 1..Len(docs)} \ {NoUser}

\* The communities of a list of documents, undefined ones filtered out.
DocCommunities(docs) == {docs[i].community : i \in 1..Len(docs)} \ {NoCommunity}

\* const childThreads = await Thread.find({ parentId: threadId })
ChildThreads(threadId) ==
  [i \in 1..Len(FindByParent(threadId)) |-> Doc(FindByParent(threadId)[i])]

\* Mutant of DeleteSets: only the target is deleted, its descendants stay.
DeleteSets_OnlyTarget(l, id) ==
  [l EXCEPT
     !.descendantThreadIds = {id},
     !.uniqueAuthorIds = DocAuthors(l.descendantThreads \o <<l.mainThread>>),
     !.uniqueCommunityIds = DocCommunities(l.descendantThreads \o <<l.mainThread>>)]

\* Mutant of DeleteSets: the target id is left out of the ids to delete.
DeleteSets_NoTarget(l, id) ==
  [l EXCEPT
     !.descendantThreadIds = DocIds(l.descendantThreads),
     !.uniqueAuthorIds = DocAuthors(l.descendantThreads \o <<l.mainThread>>),
     !.uniqueCommunityIds = DocCommunities(l.descendantThreads \o <<l.mainThread>>)]

\* What deleteThread computes between the traversal and the bulk delete.
DeleteSets(l, id) ==
  [l EXCEPT
     !.descendantThreadIds = {id} \cup DocIds(l.descendantThreads),
     !.uniqueAuthorIds = DocAuthors(l.descendantThreads \o <<l.mainThread>>),
     !.uniqueCommunityIds = DocCommunities(l.descendantThreads \o <<l.mainThread>>)]

\* The traversal goes on while a child is waiting for its own query.
AfterFetch(p, l) ==
  IF l.stack = <<>>
  THEN /\ loc' = [loc EXCEPT ![p] = DeleteSets(l, call[p].id)]
       /\ Goto(p, "dt_deleteMany")
  ELSE /\ loc' = [loc EXCEPT ![p] = l]
       /\ Goto(p, "dt_fetchChild")

\* const mainThread = await Thread.findById(id).populate("author community")
DeleteThread_findById(p, id) ==
  /\ Begin(p, [NoCall EXCEPT !.op = "deleteThread", !.id = id])
  /\ IF FindById(id) = NoId
     THEN /\ loc' = [loc EXCEPT ![p] = NoLoc]
          /\ Enter(p, "dt_notFound")
     ELSE /\ loc' = [loc EXCEPT ![p] = [NoLoc EXCEPT !.mainThread = Doc(id)]]
          /\ Enter(p, "dt_fetchRoot")
  /\ UNCHANGED store

\* throw new Error("Thread not found"), caught and wrapped by the catch block
DeleteThread_notFound(p) ==
  /\ pc[p] = "dt_notFound"
  /\ Return(p, Throw(DeleteError(ThreadNotFound)))
  /\ UNCHANGED <<store, call, loc, pre>>

\* fetchAllChildThreads(id): the query for the children of the target
DeleteThread_fetchRoot(p) ==
  /\ pc[p] = "dt_fetchRoot"
  /\ AfterFetch(p, [loc[p] EXCEPT !.stack = ChildThreads(call[p].id)])
  /\ UNCHANGED <<store, call, ret, pre>>

\* Mutant of DeleteThread_fetchChild: a child is put in front of what is
\* accumulated (unshift instead of push).
DeleteThread_fetchChild_Unshift(p) ==
  /\ pc[p] = "dt_fetchChild"
  /\ LET child == Head(loc[p].stack)
     IN AfterFetch(p, [loc[p] EXCEPT
                         !.descendantThreads = <<child>> \o @,
                         !.stack = ChildThreads(child._id) \o Tail(@)])
  /\ UNCHANGED <<store, call, ret, pre>>

\* Mutant of DeleteThread_fetchChild: a child is accumulated without its own
\* descendants.
DeleteThread_fetchChild_NoRecursion(p) ==
  /\ pc[p] = "dt_fetchChild"
  /\ LET child == Head(loc[p].stack)
     IN AfterFetch(p, [loc[p] EXCEPT
                         !.descendantThreads = Append(@, child),
                         !.stack = Tail(@)])
  /\ UNCHANGED <<store, call, ret, pre>>

\* fetchAllChildThreads(childThread._id): the child is accumulated before its
\* descendants, its own children are visited before its next sibling
DeleteThread_fetchChild(p) ==
  /\ pc[p] = "dt_fetchChild"
  /\ LET child == Head(loc[p].stack)
     IN AfterFetch(p, [loc[p] EXCEPT
                         !.descendantThreads = Append(@, child),
                         !.stack = ChildThreads(child._id) \o Tail(@)])
  /\ UNCHANGED <<store, call, ret, pre>>

\* Mutant of DeleteThread_deleteMany: the Threads left without their parent
\* are deleted as well.
DeleteThread_deleteMany_Sweep(p) ==
  /\ pc[p] = "dt_deleteMany"
  /\ LET left == Stored \ loc[p].descendantThreadIds
         kept == {t \in left : threads[t].parentId \in left \cup {NoId}}
     IN threads' = [t \in kept |-> threads[t]]
  /\ commentLog' = [t \in DOMAIN commentLog |->
                      IF t \in loc[p].descendantThreadIds THEN <<>> ELSE commentLog[t]]
  /\ Goto(p, "dt_pullUsers")
  /\ UNCHANGED <<users, communities, nextId, call, loc, ret, pre>>

\* Mutant of DeleteThread_deleteMany: the deleted ids are also pulled from the
\* children of the threads that stay.
DeleteThread_deleteMany_Detach(p) ==
  /\ pc[p] = "dt_deleteMany"
  /\ threads' = [t \in Stored \ loc[p].descendantThreadIds |->
                   [threads[t] EXCEPT !.children = Pull(@, loc[p].descendantThreadIds)]]
  /\ commentLog' = [t \in DOMAIN commentLog |->
                      IF t \in loc[p].descendantThreadIds THEN <<>> ELSE commentLog[t]]
  /\ Goto(p, "dt_pullUsers")
  /\ UNCHANGED <<users, communities, nextId, call, loc, ret, pre>>

\* await Thread.deleteMany({ _id: { $in: descendantThreadIds } })
DeleteThread_deleteMany(p) ==
  /\ pc[p] = "dt_deleteMany"
  /\ threads' = [t \in Stored \ loc[p].descendantThreadIds |-> threads[t]]
  /\ commentLog' = [t \in DOMAIN commentLog |->
                      IF t \in loc[p].descendantThreadIds THEN <<>> ELSE commentLog[t]]
  /\ Goto(p, "dt_pullUsers")
  /\ UNCHANGED <<users, communities, nextId, call, loc, ret, pre>>

\* Mutant of DeleteThread_pullUsers: the lists of the authors are not updated.
DeleteThread_pullUsers_Skipped(p) ==
  /\ pc[p] = "dt_pullUsers"
  /\ Goto(p, "dt_pullCommunities")
  /\ UNCHANGED <<store, call, loc, ret, pre>>

\* await User.updateMany({ _id: { $in: authors } }, { $pull: { threads: { $in: ids } } })
DeleteThread_pullUsers(p) ==
  /\ pc[p] = "dt_pullUsers"
  /\ users' = [u \in Users |->
                 IF u \in loc[p].uniqueAuthorIds
                 THEN Pull(users[u], loc[p].descendantThreadIds) ELSE users[u]]
  /\ Goto(p, "dt_pullCommunities")
  /\ UNCHANGED <<threads, communities, nextId, commentLog, call, loc, ret, pre>>

\* Mutant of DeleteThread_pullCommunities: the lists of the communities are
\* not updated.
DeleteThread_pullCommunities_Skipped(p) ==
  /\ pc[p] = "dt_pullCommunities"
  /\ Return(p, Ok)
  /\ UNCHANGED <<store, call, loc, pre>>

\* await Community.updateMany({ _id: { $in: communities } }, { $pull: ... })
DeleteThread_pullCommunities(p) ==
  /\ pc[p] = "dt_pullCommunities"
  /\ communities' = [c \in Communities |->
                       IF c \in loc[p].uniqueCommunityIds
                       THEN Pull(communities[c], loc[p].descendantThreadIds)
                       ELSE communities[c]]
  /\ Return(p, Ok)
  /\ UNCHANGED <<threads, users, nextId, commentLog, call, loc, pre>>

\* A store call of deleteThread rejects with `message`: the catch block throws
\* the wrapped error, what was written stays.
DeleteThread_catch(p, message) ==
  /\ \/ /\ pc[p] \in {"dt_fetchRoot", "dt_fetchChild", "dt_deleteMany",
                      "dt_pullUsers", "dt_pullCommunities"}
        /\ Return(p, Failed(pc[p], DeleteError(message)))
        /\ UNCHANGED <<call, loc, pre>>
     \/ /\ \E id \in Ids : Begin(p, [NoCall EXCEPT !.op = "deleteThread", !.id = id])
        /\ loc' = [loc EXCEPT ![p] = NoLoc]
        /\ Return(p, Failed("dt_findById", DeleteError(message)))
  /\ UNCHANGED store

deleteThread(p) ==
  \/ \E id \in Ids : DeleteThread_findById(p, id)
  \/ DeleteThread_notFound(p)
  \/ DeleteThread_fetchRoot(p)
  \/ DeleteThread_fetchChild(p)
  \/ DeleteThread_deleteMany(p)
  \/ DeleteThread_pullUsers(p)
  \/ DeleteThread_pullCommunities(p)

\* ---------------------------------------------------------------- addCommentToThread
\* const originalThread = await Thread.findById(threadId)
AddComment_findById(p, threadId, commentText, userId) ==
  /\ nextId <= MaxThreads
  /\ Begin(p, [NoCall EXCEPT !.op = "addCommentToThread", !.id = threadId,
                             !.text = commentText, !.author = userId])
  /\ loc' = [loc EXCEPT ![p] = [NoLoc EXCEPT !.originalThread = FindById(threadId)]]
  /\ IF FindById(threadId) = NoId
     THEN Enter(p, "ac_notFound")
     ELSE Enter(p, "ac_saveComment")
  /\ UNCHANGED store

\* throw new Error("Thread not found"), caught and replaced by the catch block
AddComment_notFound(p) ==
  /\ pc[p] = "ac_notFound"
  /\ Return(p, Throw(CommentError(ThreadNotFound)))
  /\ UNCHANGED <<store, call, loc, pre>>

\* Mutant of AddComment_saveComment: the comment is saved as its own parent.
AddComment_saveComment_SelfParent(p) ==
  /\ pc[p] = "ac_saveComment"
  /\ nextId <= MaxThreads
  /\ threads' = (nextId :> NewThread(call[p].text, call[p].author, NoCommunity,
                                     nextId, nextId))
                @@ threads
  /\ nextId' = nextId + 1
  /\ commentLog' = (nextId :> <<>>) @@ commentLog
  /\ loc' = [loc EXCEPT ![p].savedCommentThread = nextId]
  /\ Goto(p, "ac_saveOriginal")
  /\ UNCHANGED <<users, communities, call, ret, pre>>

\* const savedCommentThread = await commentThread.save()
AddComment_saveComment(p) ==
  /\ pc[p] = "ac_saveComment"
  /\ nextId <= MaxThreads
  /\ threads' = (nextId :> NewThread(call[p].text, call[p].author, NoCommunity,
                                     nextId, call[p].id))
                @@ threads
  /\ nextId' = nextId + 1
  /\ commentLog' = (nextId :> <<>>) @@ commentLog
  /\ loc' = [loc EXCEPT ![p].savedCommentThread = nextId]
  /\ Goto(p, "ac_saveOriginal")
  /\ UNCHANGED <<users, communities, call, ret, pre>>

\* Mutant of AddComment_saveOriginal: the children are replaced by the new
\* comment instead of extended with it.
AddComment_saveOriginal_Overwrite(p) ==
  /\ pc[p] = "ac_saveOriginal"
  /\ IF call[p].id \in Stored
     THEN /\ threads' = [threads EXCEPT ![call[p].id].children =
                                      <<loc[p].savedCommentThread>>]
          /\ commentLog' = [commentLog EXCEPT ![call[p].id] =
                              Append(@, [id |-> loc[p].savedCommentThread,
                                         userId |-> call[p].author])]
          /\ Return(p, Ok)
     ELSE /\ UNCHANGED <<threads, commentLog>>
          /\ \E found \in BOOLEAN :
               Return(p, IF found THEN Ok ELSE Throw(CommentError("No document found")))
  /\ UNCHANGED <<users, communities, nextId, call, loc, pre>>

\* originalThread.children.push(savedCommentThread._id); await originalThread.save()
\* When the parent is no longer stored the update matches no document: save()
\* either rejects or resolves, depending on the mongoose version.
AddComment_saveOriginal(p) ==
  /\ pc[p] = "ac_saveOriginal"
  /\ IF call[p].id \in Stored
     THEN /\ threads' = [threads EXCEPT ![call[p].id].children =
                                      Append(@, loc[p].savedCommentThread)]
          /\ commentLog' = [commentLog EXCEPT ![call[p].id] =
                              Append(@, [id |-> loc[p].savedCommentThread,
                                         userId |-> call[p].author])]
          /\ Return(p, Ok)
     ELSE /\ UNCHANGED <<threads, commentLog>>
          /\ \E found \in BOOLEAN :
               Return(p, IF found THEN Ok ELSE Throw(CommentError("No document found")))
  /\ UNCHANGED <<users, communities, nextId, call, loc, pre>>

\* A store call of addCommentToThread rejects with `message`: the catch block
\* logs it and throws its own error, what was written stays.
AddComment_catch(p, message) ==
  /\ \/ /\ pc[p] \in {"ac_saveComment", "ac_saveOriginal"}
        /\ Return(p, Failed(pc[p], CommentError(message)))
        /\ UNCHANGED <<call, loc, pre>>
     \/ /\ \E threadId \in Ids, commentText \in Texts, userId \in Users :
             Begin(p, [NoCall EXCEPT !.op = "addCommentToThread", !.id = threadId,
                                     !.text = commentText, !.author = userId])
        /\ loc' = [loc EXCEPT ![p] = NoLoc]
        /\ Return(p, Failed("ac_findById", CommentError(message)))
  /\ UNCHANGED store

addCommentToThread(p) ==
  \/ \E threadId \in Ids, commentText \in Texts, userId \in Users :
       AddComment_findById(p, threadId, commentText, userId)
  \/ AddComment_notFound(p)
  \/ AddComment_saveComment(p)
  \/ AddComment_saveOriginal(p)

\* ---------------------------------------------------------------- populate
\* A User resolved by populate({ path: "author", model: User }).
PopulatedUser(u) == [_id |-> u]

\* A Community resolved by populate({ path: "community", model: Community }).
PopulatedCommunity(c) == [_id |-> c]

\* populate of an array path resolves the references that name a stored
\* Thread, in the order of the array; the others are left out of the result.
Found(ids) == SelectSeq(ids, LAMBDA t : t \in Stored)

\* A reference of a children array that no populate has resolved: the id alone,
\* whether a Thread has it or not.
Unresolved(t) ==
  [_id |-> t, populated |-> FALSE, text |-> NoText, parentId |-> NoId,
   author |-> PopulatedUser(NoUser), children |-> <<>>]

\* Mutant of WithAuthor: the children are resolved one level further.
WithAuthor_Deeper(t) ==
  [_id |-> t, populated |-> TRUE, text |-> threads[t].text,
   parentId |-> threads[t].parentId, author |-> PopulatedUser(threads[t].author),
   children |-> [i \in 1..Len(Found(threads[t].children)) |->
                   [Unresolved(Found(threads[t].children)[i]) EXCEPT
                      !.populated = TRUE,
                      !.author = PopulatedUser(threads[Found(threads[t].children)[i]].author)]]]

\* A Thread whose author is resolved and whose children stay references.
WithAuthor(t) ==
  [_id |-> t, populated |-> TRUE, text |-> threads[t].text,
   parentId |-> threads[t].parentId, author |-> PopulatedUser(threads[t].author),
   children |-> [i \in 1..Len(threads[t].children) |->
                   Unresolved(threads[t].children[i])]]

\* A child of fetchThreadById: author resolved, children resolved with their authors.
WithAuthorAndChildren(t) ==
  [_id |-> t, populated |-> TRUE, text |-> threads[t].text,
   parentId |-> threads[t].parentId, author |-> PopulatedUser(threads[t].author),
   children |-> [i \in 1..Len(Found(threads[t].children)) |->
                   WithAuthor(Found(threads[t].children)[i])]]

\* ---------------------------------------------------------------- fetchThreadById
\* What the query of fetchThreadById resolves of a stored Thread.
PopulatedThread(t) ==
  [_id |-> t, text |-> threads[t].text, parentId |-> threads[t].parentId,
   author |-> PopulatedUser(threads[t].author),
   community |-> PopulatedCommunity(threads[t].community),
   children |-> [i \in 1..Len(Found(threads[t].children)) |->
                   WithAuthorAndChildren(Found(threads[t].children)[i])]]

\* const thread = await Thread.findById(threadId).populate(...).exec(); return thread
FetchThreadById_exec(p, threadId) ==
  /\ Begin(p, [NoCall EXCEPT !.op = "fetchThreadById", !.id = threadId])
  /\ loc' = [loc EXCEPT ![p] = NoLoc]
  /\ Return(p, IF FindById(threadId) = NoId
               THEN [Ok EXCEPT !.isNull = TRUE]
               ELSE [Ok EXCEPT !.thread = <<PopulatedThread(threadId)>>])
  /\ UNCHANGED store

\* The query of fetchThreadById rejects with `message`: the catch block logs
\* it and throws its own error.
FetchThreadById_catch(p, message) ==
  /\ \E threadId \in Ids :
       Begin(p, [NoCall EXCEPT !.op = "fetchThreadById", !.id = threadId])
  /\ loc' = [loc EXCEPT ![p] = NoLoc]
  /\ Return(p, Failed("ft_exec", FetchError(message)))
  /\ UNCHANGED store

fetchThreadById(p) == \E threadId \in Ids : FetchThreadById_exec(p, threadId)

\* ---------------------------------------------------------------- fetchPosts
\* The Thread of S created last.
Latest(S) == CHOOSE t \in S : \A o \in S : threads[o].createdAt <= threads[t].createdAt

\* .sort({ createdAt: "desc" })
RECURSIVE SortByCreatedAtDesc(_)
SortByCreatedAtDesc(S) ==
  IF S = {} THEN <<>>
  ELSE <<Latest(S)>> \o SortByCreatedAtDesc(S \ {Latest(S)})

\* A post of the feed: author and community resolved, children resolved with
\* their authors.
PopulatedPost(t) ==
  [_id |-> t, text |-> threads[t].text, parentId |-> threads[t].parentId,
   author |-> PopulatedUser(threads[t].author),
   community |-> PopulatedCommunity(threads[t].community),
   children |-> [i \in 1..Len(Found(threads[t].children)) |->
                   WithAuthor(Found(threads[t].children)[i])]]

\* Thread.find({ parentId: { $in: [null, undefined] } }).sort(...).skip(...).limit(...)
PostsQuery(skipAmount, pageSize) ==
  LET page == Limit(Skip(SortByCreatedAtDesc(TopLevel), skipAmount), pageSize)
  IN [i \in 1..Len(page) |-> PopulatedPost(page[i])]

\* Mutant of SkipAmount: the pages are counted from 0.
SkipAmount_FromZero(pageNumber, pageSize) == pageNumber * pageSize

\* const skipAmount = (pageNumber - 1) * pageSize
SkipAmount(pageNumber, pageSize) == (pageNumber - 1) * pageSize

\* Mutant of IsNext: the posts of the page itself are not counted.
IsNext_WithoutPage(totalPostsCount, skipAmount, posts) == totalPostsCount > skipAmount

\* const isNext = totalPostsCount > skipAmount + posts.length
IsNext(totalPostsCount, skipAmount, posts) == totalPostsCount > skipAmount + Len(posts)

\* const totalPostsCount = await Thread.countDocuments({ parentId: { $in: [null, undefined] } })
FetchPosts_countDocuments(p, pageNumber, pageSize) ==
  /\ Begin(p, [NoCall EXCEPT !.op = "fetchPosts", !.page = pageNumber,
                             !.pageSize = pageSize])
  /\ loc' = [loc EXCEPT ![p] = [NoLoc EXCEPT !.totalPostsCount = Cardinality(TopLevel)]]
  /\ Enter(p, "fp_exec")
  /\ UNCHANGED store

\* const posts = await postsQuery.exec(); return { posts, isNext }
FetchPosts_exec(p) ==
  /\ pc[p] = "fp_exec"
  /\ LET skipAmount == SkipAmount(call[p].page, call[p].pageSize)
         posts == PostsQuery(skipAmount, call[p].pageSize)
     IN Return(p, [Ok EXCEPT !.posts = posts,
                             !.isNext = IsNext(loc[p].totalPostsCount, skipAmount, posts)])
  /\ UNCHANGED <<store, call, loc, pre>>

\* A query of fetchPosts rejects with `message`: there is no try block, the
\* rejection reaches the caller as it is.
FetchPosts_rejects(p, message) ==
  /\ \/ /\ pc[p] = "fp_exec"
        /\ Return(p, Failed(pc[p], message))
        /\ UNCHANGED <<call, loc, pre>>
     \/ /\ \E pageNumber \in 1..MaxPage, pageSize \in 1..MaxPageSize :
             Begin(p, [NoCall EXCEPT !.op = "fetchPosts", !.page = pageNumber,
                                     !.pageSize = pageSize])
        /\ loc' = [loc EXCEPT ![p] = NoLoc]
        /\ Return(p, Failed("fp_countDocuments", message))
  /\ UNCHANGED store

fetchPosts(p, pageSizes) ==
  \/ \E pageNumber \in 1..MaxPage, pageSize \in pageSizes :
       FetchPosts_countDocuments(p, pageNumber, pageSize)
  \/ FetchPosts_exec(p)

\* ---------------------------------------------------------------- specifications
\* One request at a time: every action runs alone, from its first store call
\* to its return.
Next ==
  \E p \in Clients :
    \/ createThread(p)
    \/ deleteThread(p)
    \/ addCommentToThread(p)
    \/ fetchThreadById(p)
    \/ fetchPosts(p, 1..MaxPageSize)
    \/ Finish(p)

Spec == Init /\ [][Next]_vars

\* The Thread store after n createThread calls of user u1 on an empty store,
\* followed by k addCommentToThread calls of user u2 on the first post.
Feed(n, k) ==
  [t \in 1..(n + k) |->
     IF t > n THEN NewThread("a", "u2", NoCommunity, t, 1)
     ELSE [NewThread("a", "u1", NoCommunity, t, NoId) EXCEPT
             !.children = IF t = 1 THEN [i \in 1..k |-> n + i] ELSE <<>>]]

InitFeed ==
  /\ \E n \in 0..MaxFeed, k \in 0..1 :
       /\ k = 1 => n >= 1
       /\ threads = Feed(n, k)
       /\ users = [u \in Users |-> IF u = "u1" THEN [i \in 1..n |-> i] ELSE <<>>]
       /\ nextId = n + k + 1
       /\ commentLog = [t \in 1..(n + k) |->
                          IF t = 1 THEN [i \in 1..k |-> [id |-> n + i, userId |-> "u2"]]
                          ELSE <<>>]
  /\ communities = [c \in Communities |-> <<>>]
  /\ pc = [p \in Procs |-> "idle"]
  /\ call = [p \in Procs |-> NoCall]
  /\ loc = [p \in Procs |-> NoLoc]
  /\ ret = [p \in Procs |-> NoRet]
  /\ pre = [p \in Procs |-> NoSnapshot]

\* Feeds of up to MaxFeed posts that are only read.
NextFeed ==
  \E p \in Clients :
    \/ fetchPosts(p, (1..MaxPageSize) \cup {FeedPageSize})
    \/ Finish(p)

SpecFeed == InitFeed /\ [][NextFeed]_vars

\* One request at a time, and any store call may reject. The calls that write
\* a Thread start while fewer than MaxFailThreads were written: posts of user
\* u1, comments of user u2.
NextFail ==
  \E p \in Clients :
    \/ /\ nextId <= MaxFailThreads
       /\ \E communityId \in {"org1", NoOrg} :
            CreateThread_findOne(p, "a", "u1", communityId)
    \/ CreateThread_create(p)
    \/ CreateThread_pushUser(p)
    \/ CreateThread_pushCommunity(p)
    \/ deleteThread(p)
    \/ /\ nextId <= MaxFailThreads
       /\ \E threadId \in Ids : AddComment_findById(p, threadId, "a", "u2")
    \/ AddComment_notFound(p)
    \/ AddComment_saveComment(p)
    \/ AddComment_saveOriginal(p)
    \/ fetchThreadById(p)
    \/ fetchPosts(p, 1..MaxPageSize)
    \/ Finish(p)
    \/ \E message \in Messages : CreateThread_catch(p, message)
    \/ \E message \in Messages : DeleteThread_catch(p, message)
    \/ \E message \in Messages : AddComment_catch(p, message)
    \/ \E message \in Messages : FetchThreadById_catch(p, message)
    \/ \E message \in Messages : FetchPosts_rejects(p, message)

SpecFail == Init /\ [][NextFail]_vars

\* The parent of Thread t in the stores the concurrent specifications start
\* from: the even Threads reply to post 1, the odd ones to the Thread before.
TreeParent(t) == IF t = 1 THEN NoId ELSE IF t % 2 = 0 THEN 1 ELSE t - 1

\* The author of Thread t in those stores.
TreeAuthor(t) == IF t % 2 = 1 THEN "u1" ELSE "u2"

\* The Thread store after createThread("a", u1, "org1") and n - 1
\* addCommentToThread calls, the one that stores Thread t made by
\* TreeAuthor(t) on TreeParent(t).
Tree(n) ==
  [t \in 1..n |->
     [NewThread("a", TreeAuthor(t), IF t = 1 THEN "c1" ELSE NoCommunity, t, TreeParent(t))
        EXCEPT !.children = SetToSeq({c \in 1..n : TreeParent(c) = t})]]

\* The state after those n calls, nobody calling.
InitTree(n) ==
  /\ threads = Tree(n)
  /\ users = [u \in Users |-> IF u = "u1" THEN <<1>> ELSE <<>>]
  /\ communities = [c \in Communities |-> IF c = "c1" THEN <<1>> ELSE <<>>]
  /\ nextId = n + 1
  /\ commentLog = [t \in 1..n |->
                     [i \in 1..Len(Tree(n)[t].children) |->
                        [id |-> Tree(n)[t].children[i],
                         userId |-> TreeAuthor(Tree(n)[t].children[i])]]]
  /\ pc = [p \in Procs |-> "idle"]
  /\ call = [p \in Procs |-> NoCall]
  /\ loc = [p \in Procs |-> NoLoc]
  /\ ret = [p \in Procs |-> NoRet]
  /\ pre = [p \in Procs |-> NoSnapshot]

InitRace == InitTree(RaceThreads)

\* One addCommentToThread call of p1 runs while p2 calls deleteThread, one call
\* after the other; the store calls of the two interleave in any order.
NextRace ==
  \/ addCommentToThread("p1")
  \/ deleteThread("p2")
  \/ Finish("p2")

SpecRace == InitRace /\ [][NextRace]_vars

InitDeletes == InitTree(TreeThreads)

\* Each process calls deleteThread once; the store calls of the two calls
\* interleave in any order.
NextDeletes == \E p \in Procs : deleteThread(p)

SpecDeletes == InitDeletes /\ [][NextDeletes]_vars

\* ---------------------------------------------------------------- properties
\* Process p has returned from a call of `op` (normally or by throwing).
Done(p, op) == pc[p] = "done" /\ call[p].op = op

\* Process p has returned normally from a call of `op`.
DoneOk(p, op) == Done(p, op) /\ ret[p].status = "ok"

\* No action is in progress.
Quiescent == \A p \in Procs : pc[p] \in {"idle", "done"}

\* The ids of th that reach an id of S by following parentId, S included.
RECURSIVE Closure(_, _)
Closure(th, S) ==
  LET more == S \cup {t \in DOMAIN th : th[t].parentId \in S}
  IN IF more = S THEN S ELSE Closure(th, more)

\* id and its transitive descendants through parentId in the store th.
Subtree(th, id) == Closure(th, {id})

\* How many parentId links lead from t up to id (t is in Subtree(th, id)).
RECURSIVE Hops(_, _, _)
Hops(th, t, id) == IF t = id THEN 0 ELSE 1 + Hops(th, th[t].parentId, id)

MaxOf(S) == CHOOSE x \in S : \A y \in S : y <= x

\* The depth of the reply tree under id.
Depth(th, id) == MaxOf({Hops(th, t, id) : t \in Subtree(th, id)})

\* The tree under id is a reply chain: no thread of it has two replies.
IsChain(th, id) ==
  \A t \in Subtree(th, id) : Cardinality({c \in DOMAIN th : th[c].parentId = t}) <= 1

\* s without the elements of D, the others in their order.
Without(s, D) == SelectSeq(s, LAMBDA x : x \notin D)

\* C1: a deleteThread(id) that ran alone and returned normally leaves neither
\* id nor any transitive descendant of id (through parentId, as the store was
\* when the call began) in the Thread store.
C1_SubtreeDeleted ==
  \A p \in Procs :
    DoneOk(p, "deleteThread") =>
      Subtree(pre[p].threads, call[p].id) \cap Stored = {}

\* C1 witness: A with children B and C, B with child D, deleteThread(A) done.
C1_Witness ==
  \E p \in Procs :
    /\ DoneOk(p, "deleteThread")
    /\ LET th == pre[p].threads
           a == call[p].id
       IN \E b, c, d \in DOMAIN th :
            /\ Cardinality({a, b, c, d}) = 4
            /\ th[b].parentId = a /\ th[c].parentId = a /\ th[d].parentId = b
            /\ {a, b, c, d} \cap Stored = {}

\* C2: after a deleteThread that returned normally, every User's and every
\* Community's threads list holds none of the deleted ids and all its other
\* ids, in their order.
C2_ListsScrubbed ==
  \A p \in Procs :
    DoneOk(p, "deleteThread") =>
      LET deleted == Subtree(pre[p].threads, call[p].id)
      IN /\ \A u \in Users :
              /\ Range(users[u]) \cap deleted = {}
              /\ users[u] = Without(pre[p].users[u], deleted)
         /\ \A c \in Communities :
              /\ Range(communities[c]) \cap deleted = {}
              /\ communities[c] = Without(pre[p].communities[c], deleted)

\* C2 witness: a deleted post with a reply leaves the lists of its author and
\* of its community, which both keep another post.
C2_Witness ==
  \E p \in Procs :
    /\ DoneOk(p, "deleteThread")
    /\ LET deleted == Subtree(pre[p].threads, call[p].id)
       IN /\ Cardinality(deleted) >= 2
          /\ \E u \in Users :
               /\ Range(pre[p].users[u]) \cap deleted # {}
               /\ users[u] # <<>>
          /\ \E c \in Communities :
               /\ Range(pre[p].communities[c]) \cap deleted # {}
               /\ communities[c] # <<>>

\* C3: deleteThread(id) removes the target and its descendants and nothing
\* else: the threads outside the subtree are stored as they were, a target
\* without descendants takes one thread away, the root of a reply chain of
\* depth D takes D + 1 away.
C3_ExactlySubtree ==
  \A p \in Procs :
    DoneOk(p, "deleteThread") =>
      LET th == pre[p].threads
          id == call[p].id
          removed == Cardinality(DOMAIN th) - Cardinality(Stored)
      IN /\ Stored = DOMAIN th \ Subtree(th, id)
         /\ \A t \in Stored : threads[t] = th[t]
         /\ (\A t \in DOMAIN th : th[t].parentId # id) => removed = 1
         /\ IsChain(th, id) => removed = Depth(th, id) + 1

\* C3 witness: the root of a chain of depth 2 is deleted, another thread stays.
C3_Witness ==
  \E p \in Procs :
    /\ DoneOk(p, "deleteThread")
    /\ IsChain(pre[p].threads, call[p].id)
    /\ Depth(pre[p].threads, call[p].id) = 2
    /\ Stored # {}

\* C4: in every quiescent state each User's threads list holds exactly the
\* ids of the stored Threads whose author is that User, and each Community's
\* threads list exactly the ids of the stored Threads of that Community.
C4_BackReferencesExact ==
  Quiescent =>
    /\ \A u \in Users : Range(users[u]) = {t \in Stored : threads[t].author = u}
    /\ \A c \in Communities :
         Range(communities[c]) = {t \in Stored : threads[t].community = c}

\* C5: in every quiescent state every id in the children of a stored Thread T
\* is the id of a stored Thread whose parentId is T.
C5_ChildrenResolve ==
  Quiescent =>
    \A t \in Stored :
      \A c \in Range(threads[t].children) :
        c \in Stored /\ threads[c].parentId = t

\* C6: after N addCommentToThread calls on a post (commentLog holds the N
\* calls that returned normally), the children of the post are the N new
\* threads, each with the post as parentId and the user of its call as author.
C6_CommentsAppended ==
  \A t \in Stored :
    LET calls == commentLog[t]
        kids == threads[t].children
    IN /\ Len(kids) = Len(calls)
       /\ Cardinality(Range(kids)) = Len(calls)
       /\ \A i \in 1..Len(calls) :
            /\ kids[i] = calls[i].id
            /\ kids[i] \in Stored =>
                 /\ threads[kids[i]].parentId = t
                 /\ threads[kids[i]].author = calls[i].userId

\* C6 witness: three comments of two users on one post, all stored.
C6_Witness ==
  \E t \in Stored :
    /\ Len(commentLog[t]) = 3
    /\ Range(threads[t].children) \subseteq Stored
    /\ Cardinality({commentLog[t][i].userId : i \in 1..3}) = 2

\* C7: a createThread that returned normally added one Thread with the given
\* text and author, no parentId and no children; its id was appended once to
\* the threads of the author, and once to the threads of the Community with
\* the given identifier exactly when there is one; nothing else changed.
C7_CreateEffect ==
  \A p \in Procs :
    DoneOk(p, "createThread") =>
      LET old == pre[p]
          new == Stored \ DOMAIN old.threads
      IN /\ Cardinality(new) = 1
         /\ DOMAIN old.threads \subseteq Stored
         /\ \A t \in DOMAIN old.threads : threads[t] = old.threads[t]
         /\ \A t \in new :
              /\ threads[t].text = call[p].text
              /\ threads[t].author = call[p].author
              /\ threads[t].parentId = NoId
              /\ threads[t].children = <<>>
              /\ \A u \in Users :
                   users[u] = IF u = call[p].author
                              THEN Append(old.users[u], t) ELSE old.users[u]
              /\ \A c \in Communities :
                   communities[c] = IF CommunityExtId(c) = call[p].communityId
                                    THEN Append(old.communities[c], t)
                                    ELSE old.communities[c]

\* C7 witness: a post for the community org1 is created when the author and
\* the community already list a post and a comment is stored.
C7_Witness ==
  \E p \in Procs :
    /\ DoneOk(p, "createThread")
    /\ call[p].communityId = "org1"
    /\ pre[p].users[call[p].author] # <<>>
    /\ pre[p].communities["c1"] # <<>>
    /\ \E t \in DOMAIN pre[p].threads : pre[p].threads[t].parentId # NoId

\* C8: fetchThreadById(id) with an id that names no stored Thread fails with
\* an error: it does not return normally.
C8_FetchMissingFails ==
  \A p \in Procs :
    (Done(p, "fetchThreadById") /\ call[p].id \notin Stored) =>
      ret[p].status = "error"

\* C9: fetchPosts returns hasNext = true exactly when the number of stored
\* top-level Threads is greater than page * pageSize; with MaxFeed posts and
\* pageSize FeedPageSize, page 2 gives true and page 3 gives false.
C9_HasNext ==
  \A p \in Procs :
    DoneOk(p, "fetchPosts") =>
      LET total == Cardinality({t \in Stored : threads[t].parentId = NoId})
      IN /\ ret[p].isNext <=> (total > call[p].page * call[p].pageSize)
         /\ (total = MaxFeed /\ call[p].pageSize = FeedPageSize) =>
              /\ call[p].page = 2 => ret[p].isNext
              /\ call[p].page = 3 => ~ret[p].isNext

\* C9 witness: page 2 of MaxFeed posts by FeedPageSize, with a comment stored,
\* has a next page.
C9_Witness ==
  \E p \in Procs :
    /\ DoneOk(p, "fetchPosts")
    /\ Cardinality({t \in Stored : threads[t].parentId = NoId}) = MaxFeed
    /\ Cardinality(Stored) > MaxFeed
    /\ call[p].pageSize = FeedPageSize /\ call[p].page = 2
    /\ ret[p].isNext

\* C10: fetchPosts returns the Threads at positions (page-1)*pageSize+1 ..
\* min(page*pageSize, total) of the stored Threads without parentId ordered by
\* createdAt descending; no Thread with a parentId is in the page.
C10_PageWindow ==
  \A p \in Procs :
    DoneOk(p, "fetchPosts") =>
      LET top == {t \in Stored : threads[t].parentId = NoId}
          total == Cardinality(top)
          first == (call[p].page - 1) * call[p].pageSize + 1
          last == Min(call[p].page * call[p].pageSize, total)
          posts == ret[p].posts
      IN /\ Len(posts) = IF last >= first THEN last - first + 1 ELSE 0
         /\ \A i \in 1..Len(posts) :
              /\ posts[i]._id \in top
              /\ posts[i].parentId = NoId
              /\ Cardinality({t \in top : threads[t].createdAt >
                                           threads[posts[i]._id].createdAt})
                   = first + i - 2

\* C10 witness: the second page of two posts out of three, with a comment in
\* the store that is newer than the posts.
C10_Witness ==
  \E p \in Procs :
    /\ DoneOk(p, "fetchPosts")
    /\ call[p].page = 2 /\ call[p].pageSize = 2
    /\ Len(ret[p].posts) = 1
    /\ \E c \in Stored :
         /\ threads[c].parentId # NoId
         /\ \A t \in Stored : threads[t].createdAt <= threads[c].createdAt

\* C12: deleteThread(id) and addCommentToThread(id, ...) with an id that names
\* no stored Thread fail with a not-found error and leave the Thread, User and
\* Community stores as they were.
C12_NotFoundNoEffect ==
  \A p \in Procs :
    (/\ pc[p] = "done"
     /\ call[p].op \in {"deleteThread", "addCommentToThread"}
     /\ call[p].id \notin DOMAIN pre[p].threads) =>
      /\ ret[p].status = "error"
      /\ ret[p].error \in {ThreadNotFound, DeleteError(ThreadNotFound),
                           "Unable to add comment: " \o ThreadNotFound}
      /\ Snapshot = pre[p]

\* The direct replies of t that are stored, in the order of t's children.
StoredChildren(t) == SelectSeq(threads[t].children, LAMBDA c : c \in Stored)

\* r is the Thread t resolved as a record with its author.
Resolved(r, t) ==
  r.populated /\ r._id = t /\ r.author = [_id |-> threads[t].author]

\* C13: fetchThreadById returns the direct replies and the replies of the
\* replies as Thread records with their author; the children of the replies
\* of the replies are unresolved ids: nothing is resolved below two levels.
C13_TwoLevels ==
  \A p \in Procs :
    (DoneOk(p, "fetchThreadById") /\ call[p].id \in Stored) =>
      LET root == ret[p].thread[1]
          t0 == call[p].id
      IN /\ Len(root.children) = Len(StoredChildren(t0))
         /\ \A i \in 1..Len(root.children) :
              LET r1 == root.children[i]
                  t1 == StoredChildren(t0)[i]
              IN /\ Resolved(r1, t1)
                 /\ Len(r1.children) = Len(StoredChildren(t1))
                 /\ \A j \in 1..Len(r1.children) :
                      LET r2 == r1.children[j]
                          t2 == StoredChildren(t1)[j]
                      IN /\ Resolved(r2, t2)
                         /\ Len(r2.children) = Len(threads[t2].children)
                         /\ \A k \in 1..Len(r2.children) :
                              /\ ~r2.children[k].populated
                              /\ r2.children[k]._id = threads[t2].children[k]

\* C13 witness: a reply chain three levels deep under the fetched Thread; the
\* third level is stored and comes back unresolved.
C13_Witness ==
  \E p \in Procs :
    /\ DoneOk(p, "fetchThreadById") /\ call[p].id \in Stored
    /\ \E i, j, k \in 1..MaxThreads :
         /\ i \in DOMAIN ret[p].thread[1].children
         /\ j \in DOMAIN ret[p].thread[1].children[i].children
         /\ k \in DOMAIN ret[p].thread[1].children[i].children[j].children
         /\ ret[p].thread[1].children[i].children[j].children[k]._id \in Stored
         /\ ~ret[p].thread[1].children[i].children[j].children[k].populated

\* C14: deleteThread(c) of a comment c whose parent stays leaves the children
\* of the parent as they were: c is no longer stored and still in them.
C14_ParentKeepsChild ==
  \A p \in Procs :
    (DoneOk(p, "deleteThread") /\ pre[p].threads[call[p].id].parentId # NoId) =>
      LET c == call[p].id
          parent == pre[p].threads[c].parentId
      IN /\ c \notin Stored
         /\ parent \in Stored
         /\ threads[parent].children = pre[p].threads[parent].children
         /\ c \in Range(threads[parent].children)

\* C14 witness: a comment with a reply of its own is deleted, its parent stays.
C14_Witness ==
  \E p \in Procs :
    /\ DoneOk(p, "deleteThread")
    /\ pre[p].threads[call[p].id].parentId \in Stored
    /\ Cardinality(Subtree(pre[p].threads, call[p].id)) >= 2
    /\ call[p].id \in Range(threads[pre[p].threads[call[p].id].parentId].children)

\* The threads met by following parentId from t, at most n links.
RECURSIVE Ancestors(_, _, _)
Ancestors(th, t, n) ==
  IF n = 0 \/ t \notin DOMAIN th \/ th[t].parentId = NoId THEN {}
  ELSE {th[t].parentId} \cup Ancestors(th, th[t].parentId, n - 1)

\* C17: in every state reachable from the empty store the parentId relation
\* over the stored Threads is a forest: following parentId from a Thread never
\* comes back to it, and a Thread is a child of at most one Thread, once.
C17_Forest ==
  \A t \in Stored :
    /\ t \notin Ancestors(threads, t, Cardinality(Stored))
    /\ LET children == threads[t].children
       IN \A i \in 1..Len(children) :
            /\ children[i] \in Stored => threads[children[i]].parentId = t
            /\ \A j \in 1..Len(children) : children[i] = children[j] => i = j

\* C17 witness: two trees, one of them a chain of depth 2.
C17_Witness ==
  /\ Cardinality(TopLevel) = 2
  /\ \E t \in Stored : Cardinality(Ancestors(threads, t, Cardinality(Stored))) = 2

\* C19: with the actions run one at a time and none failing, no stored Thread
\* is an orphan: a parentId always names a stored Thread.
C19_NoOrphan ==
  \A t \in Stored : threads[t].parentId # NoId => threads[t].parentId \in Stored

\* C19 witness: a comment with a reply was deleted and another comment is
\* still stored.
C19_Witness ==
  \E p \in Procs :
    /\ DoneOk(p, "deleteThread")
    /\ pre[p].threads[call[p].id].parentId # NoId
    /\ Depth(pre[p].threads, call[p].id) >= 1
    /\ \E t \in Stored : threads[t].parentId # NoId

\* Process p is inside the descendant enumeration of deleteThread, or has
\* just left it.
Enumerating(p) == pc[p] \in {"dt_fetchChild", "dt_deleteMany"}

\* The ids accumulated so far, in the order of accumulation.
Accumulated(p) ==
  [i \in 1..Len(loc[p].descendantThreads) |-> loc[p].descendantThreads[i]._id]

\* The ids of the children found and not yet queried.
Waiting(p) == [i \in 1..Len(loc[p].stack) |-> loc[p].stack[i]._id]

\* What the enumeration of process p has accumulated is right so far: only
\* descendants of the target, none twice, each after its parent; when the
\* enumeration is over, all of them.
EnumerationRight(p) ==
  LET found == Accumulated(p)
      all == Subtree(threads, call[p].id) \ {call[p].id}
  IN /\ Range(found) \cup Range(Waiting(p)) \subseteq all
     /\ Cardinality(Range(found) \cup Range(Waiting(p))) = Len(found) + Len(Waiting(p))
     /\ \A i \in 1..Len(found) :
          \/ threads[found[i]].parentId = call[p].id
          \/ \E j \in 1..(i - 1) : found[j] = threads[found[i]].parentId
     /\ pc[p] = "dt_deleteMany" => Range(found) = all /\ Waiting(p) = <<>>

\* C18: the descendant enumeration of deleteThread terminates (every query
\* accumulates one more descendant, and there are no more of them than the
\* target has) and returns every transitive descendant of the target through
\* parentId once and nothing else, each after its own parent.
C18_Enumeration ==
  [][\A p \in Procs :
       /\ Enumerating(p)' => EnumerationRight(p)'
       /\ pc[p] = "dt_fetchChild" =>
            /\ Enumerating(p)'
            /\ Len(Accumulated(p)') = Len(Accumulated(p)) + 1
            /\ Len(Accumulated(p)') < Cardinality(Subtree(threads, call[p].id))]_vars

\* C18 witness: the enumeration is over for a target with a reply that has a
\* reply, while the children of the target still list a deleted Thread.
C18_Witness ==
  \E p \in Procs :
    /\ pc[p] = "dt_deleteMany"
    /\ Len(loc[p].descendantThreads) >= 2
    /\ \E i \in 1..Len(loc[p].descendantThreads) :
         threads[loc[p].descendantThreads[i]._id].parentId # call[p].id
    /\ \E c \in Range(threads[call[p].id].children) : c \notin Stored

\* Process p has thrown because a store call rejected.
StoreFailed(p) == pc[p] = "done" /\ ret[p].failedAt # ""

\* The text `message` occurs in the text `error`.
Carries(error, message) ==
  \E i \in 1..(Len(error) - Len(message) + 1) :
    SubSeq(error, i, i + Len(message) - 1) = message

\* C11: when a store call fails, every public operation throws an error of
\* its own that carries the message of the cause.
C11_WrappedCause ==
  \A p \in Procs :
    StoreFailed(p) =>
      /\ ret[p].status = "error"
      /\ ret[p].error \notin Messages
      /\ \E message \in Messages : Carries(ret[p].error, message)

\* The store of Threads th restricted to the ids of S.
Restrict(th, S) == [t \in S |-> th[t]]

\* C16: a store call that fails after an earlier write of the same call leaves
\* that write in place and nothing else is written. createThread failing after
\* the insert: the Thread is stored and the lists are as before (or, after the
\* author was updated, only the Community list is). addCommentToThread failing
\* after the comment was saved: the comment is stored, the children of the
\* parent are as before. deleteThread failing after the bulk delete: the
\* Threads are gone and the lists are as before (or, after the Users were
\* updated, the Community lists are). The caller gets the one error of the
\* operation.
C16_PartialWritesStay ==
  \A p \in Procs :
    StoreFailed(p) =>
      LET at == ret[p].failedAt
          before == pre[p]
          created == loc[p].createdThread
          comment == loc[p].savedCommentThread
          deleted == loc[p].descendantThreadIds
          author == call[p].author
      IN /\ at \in {"ct_pushUser", "ct_pushCommunity"} =>
              /\ Stored = DOMAIN before.threads \cup {created}
              /\ created \notin DOMAIN before.threads
              /\ Restrict(threads, DOMAIN before.threads) = before.threads
              /\ communities = before.communities
              /\ \E message \in Messages : ret[p].error = CreateError(message)
         /\ at = "ct_pushUser" =>
              users = before.users /\ created \notin Range(users[author])
         /\ at = "ct_pushCommunity" =>
              users = [before.users EXCEPT ![author] = Append(@, created)]
         /\ at = "ac_saveOriginal" =>
              /\ Stored = DOMAIN before.threads \cup {comment}
              /\ comment \notin DOMAIN before.threads
              /\ Restrict(threads, DOMAIN before.threads) = before.threads
              /\ threads[comment].parentId = call[p].id
              /\ comment \notin Range(threads[call[p].id].children)
              /\ users = before.users /\ communities = before.communities
              /\ \E message \in Messages : ret[p].error = CommentError(message)
         /\ at \in {"dt_pullUsers", "dt_pullCommunities"} =>
              /\ deleted = Subtree(before.threads, call[p].id)
              /\ threads = Restrict(before.threads, DOMAIN before.threads \ deleted)
              /\ communities = before.communities
              /\ \E message \in Messages : ret[p].error = DeleteError(message)
         /\ at = "dt_pullUsers" => users = before.users
         /\ at = "dt_pullCommunities" =>
              users = [u \in Users |-> Pull(before.users[u], deleted)]

\* C16 witness: deleteThread has failed after the bulk delete and the list of
\* an author still holds a deleted id, while a post left by a failed
\* createThread is in no list and a comment left by a failed
\* addCommentToThread is not among the children of its parent.
C16_Witness ==
  /\ \E p \in Procs :
       /\ StoreFailed(p)
       /\ ret[p].failedAt = "dt_pullUsers"
       /\ \E u \in Users : Range(users[u]) \cap loc[p].descendantThreadIds # {}
  /\ \E t \in Stored :
       threads[t].parentId = NoId /\ t \notin Range(users[threads[t].author])
  /\ \E t \in Stored :
       /\ threads[t].parentId \in Stored
       /\ t \notin Range(threads[threads[t].parentId].children)

\* Thread t is stored and the Thread its parentId names is not.
Orphan(t) == t \in Stored /\ threads[t].parentId \notin Stored \cup {NoId}

\* C15: a comment whose parent was deleted while addCommentToThread ran stays
\* stored, with its parent missing, through every later step: only a bulk
\* delete of a deleteThread called on the comment itself removes it.
C15_OrphanStays ==
  [][\A t \in Ids :
       Orphan(t) /\ ~Orphan(t)' =>
         \E p \in Procs : pc[p] = "dt_deleteMany" /\ call[p].id = t]_vars

\* C15 witness: addCommentToThread and a deleteThread of an ancestor of its
\* target have both returned normally, and the comment is stored while the
\* Thread it replies to is not.
C15_Witness ==
  /\ DoneOk("p1", "addCommentToThread")
  /\ DoneOk("p2", "deleteThread")
  /\ call["p1"].id \in Subtree(pre["p2"].threads, call["p2"].id) \ {call["p2"].id}
  /\ Orphan(loc["p1"].savedCommentThread)
  /\ threads[loc["p1"].savedCommentThread].parentId = call["p1"].id

\* The targets of the two deleteThread calls overlap, p's being the outer one.
Overlapping(p, q) ==
  /\ p # q
  /\ call[p].op = "deleteThread" /\ call[q].op = "deleteThread"
  /\ call[p].id \in DOMAIN Tree(TreeThreads)
  /\ call[q].id \in Subtree(Tree(TreeThreads), call[p].id)

\* C20: once two deleteThread calls on overlapping subtrees have both
\* returned, no Thread of the outer subtree is stored and no User or Community
\* list holds the id of one.
C20_OverlappingDeletes ==
  \A p, q \in Procs :
    pc[p] = "done" /\ pc[q] = "done" /\ Overlapping(p, q) =>
      \A t \in Subtree(Tree(TreeThreads), call[p].id) :
        /\ t \notin Stored
        /\ \A u \in Users : t \notin Range(users[u])
        /\ \A c \in Communities : t \notin Range(communities[c])

\* C20 witness: both calls returned normally, the inner one on a reply of the
\* outer target, and the outer call deleted fewer Threads than its subtree
\* had: the inner call had deleted the others before the outer one looked.
C20_Witness ==
  \E p, q \in Procs :
    /\ Overlapping(p, q)
    /\ call[p].id = 1 /\ call[q].id # 1
    /\ DoneOk(p, "deleteThread") /\ DoneOk(q, "deleteThread")
    /\ Cardinality(loc[p].descendantThreadIds)
         < Cardinality(Subtree(Tree(TreeThreads), call[p].id))
====
